---- MODULE Spec2Model ----
(* A model of the inth-oauth2 client: the response parsers of src/src/token/,   *)
(* src/src/error.rs and src/src/client/response.rs as operators, and the client *)
(* of src/src/client/mod.rs as a state machine over an injected HTTP            *)
(* collaborator whose answers are drawn from small sets.                        *)
EXTENDS Integers, Sequences, FiniteSets, TLC

VARIABLES
    client,     \* Client<P>: client_id, client_secret, redirect_uri
    provider,   \* P: Provider (lifetime kind, endpoints, credentials_in_body)
    now,        \* UTC::now(), in ticks
    token,      \* the token the caller holds (Option<P::Token>)
    op,         \* the last operation called and its arguments
    requests,   \* the requests the last operation handed to the HTTP collaborator
    outcome,    \* what the HTTP collaborator answered to the last request
    result,     \* what the last operation returned
    pc,         \* "idle", or "awaiting" while the operation's future is pending
    issued,     \* the refresh_token of the latest response that carried one
    parsed,     \* the value a parser returned when applied on its own
    url,        \* what the last auth_uri call returned
    tasks       \* the operations running concurrently on the client, by task

vars == <<client, provider, now, token, op, requests, outcome, result, pc, issued, parsed, url, tasks>>

----------------------------------------------------------------------------
(* Bounds of the model.                                                     *)

\* ticks of the clock per second (chrono keeps sub-second precision)
TicksPerSec == 2
\* the clock stops here
MaxNow == 3
\* ticks an HTTP exchange may take
MaxDelay == 1

----------------------------------------------------------------------------
(* JSON values (serde_json::Value / rustc_serialize::json::Json).           *)

JStr(s) == [t |-> "string", s |-> s, n |-> 0]
JInt(n) == [t |-> "i64", s |-> "", n |-> n]
JNull == [t |-> "null", s |-> "", n |-> 0]

EmptyObj == [k \in {} |-> JNull]
JObject(f) == [kind |-> "object", obj |-> f]
JNonObject(k) == [kind |-> k, obj |-> EmptyObj]

\* Option<String> and Option<i64>
None == [some |-> FALSE, v |-> ""]
Some(s) == [some |-> TRUE, v |-> s]
NoneI == [some |-> FALSE, n |-> 0]
SomeI(n) == [some |-> TRUE, n |-> n]

\* ParseError
NoError == [variant |-> "none", a |-> "", b |-> ""]
ExpectedType(t) == [variant |-> "ExpectedType", a |-> t, b |-> ""]
ExpectedFieldType(k, t) == [variant |-> "ExpectedFieldType", a |-> k, b |-> t]
ExpectedFieldValue(k, v) == [variant |-> "ExpectedFieldValue", a |-> k, b |-> v]
UnexpectedField(k) == [variant |-> "UnexpectedField", a |-> k, b |-> ""]

\* JsonHelper::as_object
as_object(json) ==
    IF json.kind = "object"
    THEN [ok |-> TRUE, obj |-> json.obj, err |-> NoError]
    ELSE [ok |-> FALSE, obj |-> EmptyObj, err |-> ExpectedType("object")]

contains_key(obj, key) == key \in DOMAIN obj

\* JsonObjectHelper::get_string_option
get_string_option(obj, key) ==
    IF key \in DOMAIN obj /\ obj[key].t = "string" THEN Some(obj[key].s) ELSE None

\* JsonObjectHelper::get_string
get_string(obj, key) ==
    LET o == get_string_option(obj, key)
    IN  IF o.some
        THEN [ok |-> TRUE, val |-> o.v, err |-> NoError]
        ELSE [ok |-> FALSE, val |-> "", err |-> ExpectedFieldType(key, "string")]

\* JsonObjectHelper::get_i64_option
get_i64_option(obj, key) ==
    IF key \in DOMAIN obj /\ obj[key].t = "i64" THEN SomeI(obj[key].n) ELSE NoneI

\* JsonObjectHelper::get_i64
get_i64(obj, key) ==
    LET o == get_i64_option(obj, key)
    IN  IF o.some
        THEN [ok |-> TRUE, val |-> o.n, err |-> NoError]
        ELSE [ok |-> FALSE, val |-> 0, err |-> ExpectedFieldType(key, "i64")]

----------------------------------------------------------------------------
(* Lifetimes: Static, Expiring, Refresh.                                    *)

\* chrono::Duration::seconds taking its argument for a number of ticks
Duration_ticks(n) == n

\* chrono::Duration::seconds
Duration_seconds(n) == n * TicksPerSec

NoLifetime == [kind |-> "none", refresh_token |-> "", expires |-> 0]
Static == [kind |-> "Static", refresh_token |-> "", expires |-> 0]
Expiring(rt, e) == [kind |-> "Expiring", refresh_token |-> rt, expires |-> e]
Refresh(rt, e) == [kind |-> "Refresh", refresh_token |-> rt, expires |-> e]

LOk(l) == [ok |-> TRUE, val |-> l, err |-> NoError]
LErr(e) == [ok |-> FALSE, val |-> NoLifetime, err |-> e]

\* impl Lifetime for Static
Static_expired(l, t) == FALSE

\* impl Lifetime for Expiring
Expiring_expired(l, t) == l.expires < t

\* impl Lifetime for Refresh
Refresh_expired(l, t) == l.expires < t

\* Static::from_response with the expires_in check left out
Static_from_response_unchecked(json) ==
    LET o == as_object(json)
    IN  IF ~o.ok THEN LErr(o.err) ELSE LOk(Static)

\* Static::from_response rejecting only an integer expires_in
Static_from_response_i64(json) ==
    LET o == as_object(json)
    IN  IF ~o.ok THEN LErr(o.err)
        ELSE IF get_i64_option(o.obj, "expires_in").some
             THEN LErr(UnexpectedField("expires_in"))
             ELSE LOk(Static)

\* impl FromResponse for Static
Static_from_response(json) ==
    LET o == as_object(json)
    IN  IF ~o.ok THEN LErr(o.err)
        ELSE IF contains_key(o.obj, "expires_in")
             THEN LErr(UnexpectedField("expires_in"))
             ELSE LOk(Static)

\* impl FromResponse for Expiring
Expiring_from_response(json, t) ==
    LET o == as_object(json)
        refresh_token == get_string(o.obj, "refresh_token")
        expires_in == get_i64(o.obj, "expires_in")
    IN  IF ~o.ok THEN LErr(o.err)
        ELSE IF ~refresh_token.ok THEN LErr(refresh_token.err)
        ELSE IF ~expires_in.ok THEN LErr(expires_in.err)
        ELSE LOk(Expiring(refresh_token.val, t + Duration_seconds(expires_in.val)))

\* Expiring::from_response_inherit
Expiring_from_response_inherit(json, prev, t) ==
    LET o == as_object(json)
        got == get_string(o.obj, "refresh_token")
        refresh_token == IF got.ok THEN got.val ELSE prev.refresh_token
        expires_in == get_i64(o.obj, "expires_in")
    IN  IF ~o.ok THEN LErr(o.err)
        ELSE IF ~expires_in.ok THEN LErr(expires_in.err)
        ELSE LOk(Expiring(refresh_token, t + Duration_seconds(expires_in.val)))

\* Refresh::from_response reading expires_in before refresh_token
Refresh_from_response_swapped(json, t) ==
    LET o == as_object(json)
        refresh_token == get_string(o.obj, "refresh_token")
        expires_in == get_i64(o.obj, "expires_in")
    IN  IF ~o.ok THEN LErr(o.err)
        ELSE IF ~expires_in.ok THEN LErr(expires_in.err)
        ELSE IF ~refresh_token.ok THEN LErr(refresh_token.err)
        ELSE LOk(Refresh(refresh_token.val, t + Duration_seconds(expires_in.val)))

\* impl FromResponse for Refresh
Refresh_from_response(json, t) ==
    LET o == as_object(json)
        refresh_token == get_string(o.obj, "refresh_token")
        expires_in == get_i64(o.obj, "expires_in")
    IN  IF ~o.ok THEN LErr(o.err)
        ELSE IF ~refresh_token.ok THEN LErr(refresh_token.err)
        ELSE IF ~expires_in.ok THEN LErr(expires_in.err)
        ELSE LOk(Refresh(refresh_token.val, t + Duration_seconds(expires_in.val)))

\* Refresh::from_response_inherit left at the trait's default (no inheritance)
Refresh_from_response_inherit_default(json, prev, t) ==
    Refresh_from_response(json, t)

\* Refresh::from_response_inherit keeping the previous refresh token always
Refresh_from_response_inherit_keep(json, prev, t) ==
    LET o == as_object(json)
        expires_in == get_i64(o.obj, "expires_in")
    IN  IF ~o.ok THEN LErr(o.err)
        ELSE IF ~expires_in.ok THEN LErr(expires_in.err)
        ELSE LOk(Refresh(prev.refresh_token, t + Duration_seconds(expires_in.val)))

\* Refresh::from_response_inherit inheriting the expiry as well
Refresh_from_response_inherit_expiry(json, prev, t) ==
    LET o == as_object(json)
        got == get_string(o.obj, "refresh_token")
        refresh_token == IF got.ok THEN got.val ELSE prev.refresh_token
        expires_in == get_i64_option(o.obj, "expires_in")
    IN  IF ~o.ok THEN LErr(o.err)
        ELSE LOk(Refresh(refresh_token,
                         IF expires_in.some
                         THEN t + Duration_seconds(expires_in.n)
                         ELSE prev.expires))

\* Refresh::from_response_inherit rejecting a refresh_token that is present
\* and not a string
Refresh_from_response_inherit_strict(json, prev, t) ==
    LET o == as_object(json)
        got == get_string(o.obj, "refresh_token")
        refresh_token == IF got.ok THEN got.val ELSE prev.refresh_token
        expires_in == get_i64(o.obj, "expires_in")
    IN  IF ~o.ok THEN LErr(o.err)
        ELSE IF contains_key(o.obj, "refresh_token") /\ ~got.ok THEN LErr(got.err)
        ELSE IF ~expires_in.ok THEN LErr(expires_in.err)
        ELSE LOk(Refresh(refresh_token, t + Duration_seconds(expires_in.val)))

\* Refresh::from_response_inherit
Refresh_from_response_inherit(json, prev, t) ==
    LET o == as_object(json)
        got == get_string(o.obj, "refresh_token")
        refresh_token == IF got.ok THEN got.val ELSE prev.refresh_token
        expires_in == get_i64(o.obj, "expires_in")
    IN  IF ~o.ok THEN LErr(o.err)
        ELSE IF ~expires_in.ok THEN LErr(expires_in.err)
        ELSE LOk(Refresh(refresh_token, t + Duration_seconds(expires_in.val)))

LifetimeKinds == {"Static", "Expiring", "Refresh"}

\* <P::Lifetime as Lifetime>::expired
Lifetime_expired(l, t) ==
    CASE l.kind = "Static" -> Static_expired(l, t)
      [] l.kind = "Expiring" -> Expiring_expired(l, t)
      [] l.kind = "Refresh" -> Refresh_expired(l, t)

\* <L as FromResponse>::from_response
Lifetime_from_response(L, json, t) ==
    CASE L = "Static" -> Static_from_response(json)
      [] L = "Expiring" -> Expiring_from_response(json, t)
      [] L = "Refresh" -> Refresh_from_response(json, t)

\* <L as FromResponse>::from_response_inherit; Static keeps the trait's default
Lifetime_from_response_inherit(L, json, prev, t) ==
    CASE L = "Static" -> Static_from_response(json)
      [] L = "Expiring" -> Expiring_from_response_inherit(json, prev, t)
      [] L = "Refresh" -> Refresh_from_response_inherit(json, prev, t)

----------------------------------------------------------------------------
(* Bearer<L> (src/src/token/bearer.rs).                                     *)

NoBearer == [access_token |-> "", scope |-> None, lifetime |-> NoLifetime]
Bearer(at, sc, l) == [access_token |-> at, scope |-> sc, lifetime |-> l]

BOk(b) == [ok |-> TRUE, val |-> b, err |-> NoError]
BErr(e) == [ok |-> FALSE, val |-> NoBearer, err |-> e]

\* Bearer::from_response_and_lifetime
Bearer_from_response_and_lifetime(json, lifetime) ==
    LET o == as_object(json)
        token_type == get_string(o.obj, "token_type")
        access_token == get_string(o.obj, "access_token")
        scope == get_string_option(o.obj, "scope")
    IN  IF ~o.ok THEN BErr(o.err)
        ELSE IF ~token_type.ok THEN BErr(token_type.err)
        ELSE IF token_type.val # "Bearer" /\ token_type.val # "bearer"
             THEN BErr(ExpectedFieldValue("token_type", "Bearer"))
        ELSE IF ~access_token.ok THEN BErr(access_token.err)
        ELSE BOk(Bearer(access_token.val, scope, lifetime))

\* Bearer::from_response validating the bearer fields before the lifetime
Bearer_from_response_fields_first(L, json, t) ==
    LET fields == Bearer_from_response_and_lifetime(json, NoLifetime)
        lifetime == Lifetime_from_response(L, json, t)
    IN  IF ~fields.ok THEN fields
        ELSE IF ~lifetime.ok THEN BErr(lifetime.err)
        ELSE Bearer_from_response_and_lifetime(json, lifetime.val)

\* impl FromResponse for Bearer<L>: from_response
Bearer_from_response(L, json, t) ==
    LET lifetime == Lifetime_from_response(L, json, t)
    IN  IF ~lifetime.ok THEN BErr(lifetime.err)
        ELSE Bearer_from_response_and_lifetime(json, lifetime.val)

\* Bearer::from_response_inherit keeping the previous scope when the response
\* has none
Bearer_from_response_inherit_scope(L, json, prev, t) ==
    LET lifetime == Lifetime_from_response_inherit(L, json, prev.lifetime, t)
        b == Bearer_from_response_and_lifetime(json, lifetime.val)
    IN  IF ~lifetime.ok THEN BErr(lifetime.err)
        ELSE IF b.ok /\ ~b.val.scope.some
             THEN BOk(Bearer(b.val.access_token, prev.scope, b.val.lifetime))
        ELSE b

\* impl FromResponse for Bearer<L>: from_response_inherit
Bearer_from_response_inherit(L, json, prev, t) ==
    LET lifetime == Lifetime_from_response_inherit(L, json, prev.lifetime, t)
    IN  IF ~lifetime.ok THEN BErr(lifetime.err)
        ELSE Bearer_from_response_and_lifetime(json, lifetime.val)

----------------------------------------------------------------------------
(* The persisted form of a token (Encodable / Decodable).                   *)

\* DateTime::timestamp: whole seconds since the epoch
DateTime_timestamp(e) == e \div TicksPerSec

\* UTC.timestamp(secs, nsecs), the sub-second part given in ticks
UTC_timestamp(secs, nsecs) == secs * TicksPerSec + nsecs

\* struct Serializable and the unit struct Static as they are written out
Serializable(kind, refresh_token, expires) ==
    [kind |-> kind, refresh_token |-> refresh_token, expires |-> expires]

\* impl Encodable for Static / Expiring / Refresh
Lifetime_encode(l) ==
    CASE l.kind = "Static" -> Serializable("Static", "", 0)
      [] l.kind = "Expiring" ->
             Serializable("Expiring", l.refresh_token, DateTime_timestamp(l.expires))
      [] l.kind = "Refresh" ->
             Serializable("Refresh", l.refresh_token, DateTime_timestamp(l.expires))

\* impl Decodable for Static / Expiring / Refresh
Lifetime_decode(e) ==
    CASE e.kind = "Static" -> Static
      [] e.kind = "Expiring" -> Expiring(e.refresh_token, UTC_timestamp(e.expires, 0))
      [] e.kind = "Refresh" -> Refresh(e.refresh_token, UTC_timestamp(e.expires, 0))

\* #[derive(RustcEncodable)] for Bearer<L>
Bearer_encode(b) ==
    [access_token |-> b.access_token, scope |-> b.scope,
     lifetime |-> Lifetime_encode(b.lifetime)]

\* #[derive(RustcDecodable)] for Bearer<L>
Bearer_decode(e) == Bearer(e.access_token, e.scope, Lifetime_decode(e.lifetime))

----------------------------------------------------------------------------
(* OAuth2Error (src/src/error.rs).                                          *)

RecognizedCodes ==
    {"invalid_request", "invalid_client", "invalid_grant",
     "unauthorized_client", "unsupported_grant_type", "invalid_scope"}

\* impl From<&str> for OAuth2ErrorCode matching without regard to case
OAuth2ErrorCode_from_ignore_case(s) ==
    CASE s \in {"invalid_request", "Invalid_Request"} ->
             [variant |-> "InvalidRequest", s |-> ""]
      [] s = "invalid_client" -> [variant |-> "InvalidClient", s |-> ""]
      [] s = "invalid_grant" -> [variant |-> "InvalidGrant", s |-> ""]
      [] s = "unauthorized_client" -> [variant |-> "UnauthorizedClient", s |-> ""]
      [] s = "unsupported_grant_type" -> [variant |-> "UnsupportedGrantType", s |-> ""]
      [] s \in {"invalid_scope", "INVALID_SCOPE"} ->
             [variant |-> "InvalidScope", s |-> ""]
      [] OTHER -> [variant |-> "Unrecognized", s |-> s]

\* impl From<&str> for OAuth2ErrorCode
OAuth2ErrorCode_from(s) ==
    CASE s = "invalid_request" -> [variant |-> "InvalidRequest", s |-> ""]
      [] s = "invalid_client" -> [variant |-> "InvalidClient", s |-> ""]
      [] s = "invalid_grant" -> [variant |-> "InvalidGrant", s |-> ""]
      [] s = "unauthorized_client" -> [variant |-> "UnauthorizedClient", s |-> ""]
      [] s = "unsupported_grant_type" -> [variant |-> "UnsupportedGrantType", s |-> ""]
      [] s = "invalid_scope" -> [variant |-> "InvalidScope", s |-> ""]
      [] OTHER -> [variant |-> "Unrecognized", s |-> s]

NoOAuth2Error ==
    [code |-> [variant |-> "none", s |-> ""], description |-> None, uri |-> None]

\* OAuth2Error::from_response requiring error_description when it is present
\* to be a string
OAuth2Error_from_response_strict(json) ==
    LET o == as_object(json)
        code == get_string(o.obj, "error")
        description == get_string_option(o.obj, "error_description")
        uri == get_string_option(o.obj, "error_uri")
    IN  IF ~o.ok THEN [ok |-> FALSE, val |-> NoOAuth2Error, err |-> o.err]
        ELSE IF ~code.ok
             THEN [ok |-> FALSE, val |-> NoOAuth2Error,
                   err |-> ExpectedFieldType("error", "string")]
        ELSE IF contains_key(o.obj, "error_description") /\ ~description.some
             THEN [ok |-> FALSE, val |-> NoOAuth2Error,
                   err |-> ExpectedFieldType("error_description", "string")]
        ELSE [ok |-> TRUE,
              val |-> [code |-> OAuth2ErrorCode_from(code.val),
                       description |-> description, uri |-> uri],
              err |-> NoError]

\* impl FromResponse for OAuth2Error
OAuth2Error_from_response(json) ==
    LET o == as_object(json)
        code == get_string(o.obj, "error")
        description == get_string_option(o.obj, "error_description")
        uri == get_string_option(o.obj, "error_uri")
    IN  IF ~o.ok THEN [ok |-> FALSE, val |-> NoOAuth2Error, err |-> o.err]
        ELSE IF ~code.ok
             THEN [ok |-> FALSE, val |-> NoOAuth2Error,
                   err |-> ExpectedFieldType("error", "string")]
        ELSE [ok |-> TRUE,
              val |-> [code |-> OAuth2ErrorCode_from(code.val),
                       description |-> description, uri |-> uri],
              err |-> NoError]

----------------------------------------------------------------------------
(* ClientError (src/src/client/error.rs) and operation results.             *)

NoClientError == [variant |-> "none", parse |-> NoError, oauth2 |-> NoOAuth2Error]
ClientError_Hyper == [variant |-> "Hyper", parse |-> NoError, oauth2 |-> NoOAuth2Error]
ClientError_Json == [variant |-> "Json", parse |-> NoError, oauth2 |-> NoOAuth2Error]
ClientError_Url == [variant |-> "Url", parse |-> NoError, oauth2 |-> NoOAuth2Error]
ClientError_Parse(e) == [variant |-> "Parse", parse |-> e, oauth2 |-> NoOAuth2Error]
ClientError_OAuth2(e) == [variant |-> "OAuth2", parse |-> NoError, oauth2 |-> e]

COk(tok) == [ok |-> TRUE, token |-> tok, err |-> NoClientError]
CErr(e) == [ok |-> FALSE, token |-> NoBearer, err |-> e]
NoResult == CErr(NoClientError)

NoToken == [some |-> FALSE, tok |-> NoBearer]
SomeToken(b) == [some |-> TRUE, tok |-> b]

----------------------------------------------------------------------------
(* The HTTP collaborator: what it is handed and what it answers.            *)

NoOutcome == [kind |-> "none", json |-> JNonObject("null")]
\* hyper::Client::request or Response::body().concat2() failed
HyperError == [kind |-> "hyper_error", json |-> JNonObject("null")]
\* the body is not JSON: serde_json::from_slice fails
NotJson == [kind |-> "not_json", json |-> JNonObject("null")]
JsonBody(j) == [kind |-> "json", json |-> j]

\* the union of the fields of two objects (the fields of f win)
Merge(f, g) == [k \in (DOMAIN f) \cup (DOMAIN g) |-> IF k \in DOMAIN f THEN f[k] ELSE g[k]]

Field(k, v) == [x \in {k} |-> v]

\* tests/mock.rs: the bearer fields of the request_token and refresh_token fixtures
BearerA ==
    Merge(Field("token_type", JStr("Bearer")),
          Merge(Field("access_token", JStr("aaaaaaaa")), Field("scope", JStr("example"))))
BearerC ==
    Merge(Field("token_type", JStr("bearer")), Field("access_token", JStr("cccccccc")))

\* tests/mock.rs: the invalid_request fixture
InvalidRequest ==
    Merge(Field("error", JStr("invalid_request")),
          Merge(Field("error_description", JStr("example")),
                Field("error_uri", JStr("https://example.com/error"))))

BearerParts == {EmptyObj, BearerA, BearerC}
ExpiresInParts == {EmptyObj} \cup {Field("expires_in", JInt(n)) : n \in {-1, 0, 1}}
RefreshTokenParts ==
    {EmptyObj, Field("refresh_token", JInt(7))}
    \cup {Field("refresh_token", JStr(s)) : s \in {"bbbbbbbb", "dddddddd"}}

TokenBodies ==
    { Merge(b, Merge(e, r)) : b \in BearerParts, e \in ExpiresInParts, r \in RefreshTokenParts }

\* an error object, alone or together with the fields of a token
ErrorBodies ==
    { Merge(InvalidRequest, t) :
        t \in { EmptyObj,
                BearerA,
                Merge(BearerA, Merge(Field("expires_in", JInt(1)),
                                     Field("refresh_token", JStr("bbbbbbbb")))),
                Merge(BearerC, Field("expires_in", JInt(1))) } }

\* the response bodies the token endpoint answers with
Responses == {JObject(f) : f \in TokenBodies \cup ErrorBodies} \cup {JNonObject("array")}

Outcomes == {HyperError, NotJson} \cup {JsonBody(j) : j \in Responses}

----------------------------------------------------------------------------
(* Providers and clients.                                                   *)

\* Provider::credentials_in_body, the trait's default
credentials_in_body == FALSE

\* tests/mock.rs: provider::BearerStatic, BearerExpiring, BearerRefresh
MockProvider(L) ==
    [lifetime |-> L,
     auth_uri |-> "https://example.com/oauth/auth",
     token_uri |-> "https://example.com/oauth/token",
     credentials_in_body |-> credentials_in_body]

Providers == {MockProvider(L) : L \in LifetimeKinds}

\* Client::new
Client_new(client_id, client_secret, redirect_uri) ==
    [client_id |-> client_id, client_secret |-> client_secret,
     redirect_uri |-> redirect_uri]

Clients == {Client_new("client_id", "client_secret", None)}

----------------------------------------------------------------------------
(* Client<P> (src/src/client/mod.rs).                                       *)

\* a string as its runs of bytes the form-urlencoded serializer leaves alone
\* (ASCII letters, digits, `*`, `-`, `.`, `_`) and its other bytes one by one;
\* a string that is not listed is a single such run
Pieces(s) ==
    CASE s = "http://example.com/oauth2/callback" ->
             <<"http", ":", "/", "/", "example.com", "/", "oauth2", "/", "callback">>
      [] s = "urn:ietf:wg:oauth:2.0:oob" ->
             <<"urn", ":", "ietf", ":", "wg", ":", "oauth", ":", "2.0", ":", "oob">>
      [] s = "user repo" -> <<"user", " ", "repo">>
      [] s = "a=b&c" -> <<"a", "=", "b", "&", "c">>
      [] s = "4/abc" -> <<"4", "/", "abc">>
      [] OTHER -> <<s>>

\* url::form_urlencoded::byte_serialize on one run or byte
byte_serialize_piece(c) ==
    CASE c = " " -> "+"
      [] c = ":" -> "%3A"
      [] c = "/" -> "%2F"
      [] c = "&" -> "%26"
      [] c = "=" -> "%3D"
      [] OTHER -> c

RECURSIVE Concat(_)
Concat(ss) == IF ss = <<>> THEN "" ELSE Head(ss) \o Concat(Tail(ss))

\* url::form_urlencoded::byte_serialize
byte_serialize(s) ==
    LET ps == Pieces(s)
    IN  Concat([i \in 1 .. Len(ps) |-> byte_serialize_piece(ps[i])])

\* Serializer::append_pair / query_pairs_mut().append_pair: the pair as it is
\* written, value percent-encoded
Pair(k, v) == <<k, byte_serialize(v)>>

\* Serializer::finish: name=value pairs joined with `&`
RECURSIVE Serializer_finish(_)
Serializer_finish(pairs) ==
    IF pairs = <<>> THEN ""
    ELSE Head(pairs)[1] \o "=" \o Head(pairs)[2]
         \o (IF Tail(pairs) = <<>> THEN "" ELSE "&" \o Serializer_finish(Tail(pairs)))

\* Url: the parsed endpoint and the query pairs appended to it
NoUrl == [base |-> "", query |-> <<>>]
UOk(u) == [ok |-> TRUE, url |-> u, err |-> NoClientError]
UErr(e) == [ok |-> FALSE, url |-> NoUrl, err |-> e]
NoUri == UErr(NoClientError)

\* an auth_uri call: its arguments and what it returned
NoAuthUri == [called |-> FALSE, scope |-> None, state |-> None, ret |-> NoUri]

\* endpoint strings that Url::parse and str::parse::<hyper::Uri> reject (no
\* scheme: a relative reference without a base)
MalformedUris == {"example.com/oauth/auth", "example.com/oauth/token"}

\* Url::parse on an endpoint string; the absolute endpoints of the providers
\* are serialized back as they were written
Url_parse(s) ==
    IF s \in MalformedUris THEN UErr(ClientError_Url)
    ELSE UOk([base |-> s, query |-> <<>>])

\* Url::as_str
Url_as_str(u) ==
    IF u.query = <<>> THEN u.base ELSE u.base \o "?" \o Serializer_finish(u.query)

\* Client::auth_uri appending state before scope
auth_uri_state_first(c, p, scope, state) ==
    LET parsed_uri == Url_parse(p.auth_uri)
        query ==
            <<Pair("response_type", "code"), Pair("client_id", c.client_id)>>
            \o (IF c.redirect_uri.some
                THEN <<Pair("redirect_uri", c.redirect_uri.v)>> ELSE <<>>)
            \o (IF state.some THEN <<Pair("state", state.v)>> ELSE <<>>)
            \o (IF scope.some THEN <<Pair("scope", scope.v)>> ELSE <<>>)
    IN  IF ~parsed_uri.ok THEN parsed_uri
        ELSE UOk([parsed_uri.url EXCEPT !.query = @ \o query])

\* Client::auth_uri appending the client's secret as well
auth_uri_with_secret(c, p, scope, state) ==
    LET parsed_uri == Url_parse(p.auth_uri)
        query ==
            <<Pair("response_type", "code"), Pair("client_id", c.client_id),
              Pair("client_secret", c.client_secret)>>
            \o (IF c.redirect_uri.some
                THEN <<Pair("redirect_uri", c.redirect_uri.v)>> ELSE <<>>)
            \o (IF scope.some THEN <<Pair("scope", scope.v)>> ELSE <<>>)
            \o (IF state.some THEN <<Pair("state", state.v)>> ELSE <<>>)
    IN  IF ~parsed_uri.ok THEN parsed_uri
        ELSE UOk([parsed_uri.url EXCEPT !.query = @ \o query])

\* Client::auth_uri
auth_uri(c, p, scope, state) ==
    LET parsed_uri == Url_parse(p.auth_uri)
        query ==
            <<Pair("response_type", "code"), Pair("client_id", c.client_id)>>
            \o (IF c.redirect_uri.some
                THEN <<Pair("redirect_uri", c.redirect_uri.v)>> ELSE <<>>)
            \o (IF scope.some THEN <<Pair("scope", scope.v)>> ELSE <<>>)
            \o (IF state.some THEN <<Pair("state", state.v)>> ELSE <<>>)
    IN  IF ~parsed_uri.ok THEN parsed_uri
        ELSE UOk([parsed_uri.url EXCEPT !.query = @ \o query])

\* post_token did not return: Result::unwrap panicked on the Err of
\* P::token_uri().parse() and the calling thread unwinds
Panic ==
    [method |-> "panic",
     uri |-> "",
     authorization |-> [username |-> "", password |-> None],
     accept |-> "",
     content_type |-> "",
     body |-> <<>>]

\* Client::post_token setting the Basic header only when the credentials are
\* not in the body
post_token_basic_or_body(c, p, body) ==
    [method |-> "POST",
     uri |-> p.token_uri,
     authorization |-> IF p.credentials_in_body
                       THEN [username |-> "", password |-> None]
                       ELSE [username |-> c.client_id, password |-> Some(c.client_secret)],
     accept |-> "application/json",
     content_type |-> "application/x-www-form-urlencoded",
     body |-> IF p.credentials_in_body
              THEN body \o <<Pair("client_id", c.client_id),
                             Pair("client_secret", c.client_secret)>>
              ELSE body]

\* Client::post_token, up to http_client.request(request)
post_token(c, p, body) ==
    IF p.token_uri \in MalformedUris THEN Panic ELSE
    [method |-> "POST",
     uri |-> p.token_uri,
     authorization |-> [username |-> c.client_id, password |-> Some(c.client_secret)],
     accept |-> "application/json",
     content_type |-> "application/x-www-form-urlencoded",
     body |-> IF p.credentials_in_body
              THEN body \o <<Pair("client_id", c.client_id),
                             Pair("client_secret", c.client_secret)>>
              ELSE body]

\* Client::post_token, the future's value: Result<Value, ClientError>
\* post_token sending the request again when no answer has come yet
http_client_request_retry(req) == IF req = Panic THEN <<>> ELSE <<req, req>>

\* post_token: the requests handed to the HTTP collaborator, one
\* http_client.request(request) call for the request that was built
http_client_request(req) == IF req = Panic THEN <<>> ELSE <<req>>

post_token_future(out) ==
    CASE out.kind = "hyper_error" -> [ok |-> FALSE, json |-> out.json, err |-> ClientError_Hyper]
      [] out.kind = "not_json" -> [ok |-> FALSE, json |-> out.json, err |-> ClientError_Json]
      [] out.kind = "json" -> [ok |-> TRUE, json |-> out.json, err |-> NoClientError]

\* Result<P::Token, ParseError>::map_err(ClientError::from)
map_err(r) == IF r.ok THEN COk(r.val) ELSE CErr(ClientError_Parse(r.err))

\* Client::request_token leaving redirect_uri out
request_token_no_redirect(c, p, code) ==
    post_token(c, p, <<Pair("grant_type", "authorization_code"), Pair("code", code)>>)

\* Client::request_token writing redirect_uri as it is held, not as auth_uri
\* writes it
request_token_raw_redirect(c, p, code) ==
    post_token(c, p,
        <<Pair("grant_type", "authorization_code"), Pair("code", code)>>
        \o (IF c.redirect_uri.some
            THEN <<(<<"redirect_uri", c.redirect_uri.v>>)>>
            ELSE <<>>))

\* Client::request_token: the request it hands to post_token
request_token(c, p, code) ==
    post_token(c, p,
        <<Pair("grant_type", "authorization_code"), Pair("code", code)>>
        \o (IF c.redirect_uri.some
            THEN <<Pair("redirect_uri", c.redirect_uri.v)>>
            ELSE <<>>))

\* Client::request_token: the future's value once post_token has answered at time t
request_token_and_then(p, out, t) ==
    LET json == post_token_future(out)
    IN  IF ~json.ok THEN CErr(json.err)
        ELSE map_err(Bearer_from_response(p.lifetime, json.json, t))

\* Client::refresh_token sending the access token in place of the refresh token
refresh_token_access_token(c, p, tok, scope) ==
    post_token(c, p,
        <<Pair("grant_type", "refresh_token"),
          Pair("refresh_token", tok.access_token)>>
        \o (IF scope.some THEN <<Pair("scope", scope.v)>> ELSE <<>>))

\* Client::refresh_token: the request it hands to post_token
refresh_token(c, p, tok, scope) ==
    post_token(c, p,
        <<Pair("grant_type", "refresh_token"),
          Pair("refresh_token", tok.lifetime.refresh_token)>>
        \o (IF scope.some THEN <<Pair("scope", scope.v)>> ELSE <<>>))

\* Client::refresh_token: the future's value once post_token has answered at time t
refresh_token_and_then(p, out, tok, t) ==
    LET json == post_token_future(out)
    IN  IF ~json.ok THEN CErr(json.err)
        ELSE map_err(Bearer_from_response_inherit(p.lifetime, json.json, tok, t))

\* Client::ensure_token refreshing a token that has not expired
ensure_token_inverted(tok, t) == ~Lifetime_expired(tok.lifetime, t)

\* Client::ensure_token: whether it delegates to refresh_token
ensure_token(tok, t) == Lifetime_expired(tok.lifetime, t)

----------------------------------------------------------------------------
(* The caller: one client, one provider, one operation at a time.           *)

NoOp == [name |-> "none", code |-> "", scope |-> None, token |-> NoToken, at |-> 0]
NoParsed == [ok |-> FALSE, val |-> NoLifetime, err |-> NoError]

Codes == {"code", "4/abc"}
Scopes == {None, Some("example"), Some("user repo")}

\* the string refresh_token of a response body, if it has one
ResponseRefreshToken(out) ==
    IF out.kind = "json" THEN get_string_option(out.json.obj, "refresh_token") ELSE None

Init ==
    /\ client \in Clients
    /\ provider \in Providers
    /\ now = 0
    /\ token = NoToken
    /\ op = NoOp
    /\ requests = <<>>
    /\ outcome = NoOutcome
    /\ result = NoResult
    /\ pc = "idle"
    /\ issued = ""
    /\ parsed = NoParsed
    /\ url = NoAuthUri
    /\ tasks = <<>>

\* time passes; a pending exchange takes at most MaxDelay ticks
Tick ==
    /\ now < MaxNow
    /\ pc = "awaiting" => now < op.at + MaxDelay
    /\ now' = now + 1
    /\ UNCHANGED <<client, provider, token, op, requests, outcome, result, pc, issued, parsed, url, tasks>>

\* the request post_token built is handed to the HTTP collaborator and the
\* future is pending; when building it panicked, nothing is sent and the caller
\* does not continue
Send(req) ==
    IF req = Panic
    THEN requests' = http_client_request(req) /\ result' = NoResult /\ pc' = "panicked"
    ELSE requests' = http_client_request(req) /\ result' = NoResult /\ pc' = "awaiting"

\* client.request_token(&http_client, code)
RequestToken ==
    \E code \in Codes :
        /\ pc = "idle"
        /\ op' = [name |-> "request_token", code |-> code, scope |-> None,
                  token |-> NoToken, at |-> now]
        /\ Send(request_token(client, provider, code))
        /\ outcome' = NoOutcome
        /\ UNCHANGED <<client, provider, now, token, issued, parsed, url, tasks>>

\* client.refresh_token(&http_client, token, scope): the token is moved in
RefreshToken ==
    \E scope \in Scopes :
        /\ pc = "idle"
        /\ provider.lifetime = "Refresh"
        /\ token.some
        /\ op' = [name |-> "refresh_token", code |-> "", scope |-> scope,
                  token |-> token, at |-> now]
        /\ Send(refresh_token(client, provider, token.tok, scope))
        /\ outcome' = NoOutcome
        /\ token' = NoToken
        /\ UNCHANGED <<client, provider, now, issued, parsed, url, tasks>>

\* client.ensure_token(&http_client, token)
EnsureToken ==
    /\ pc = "idle"
    /\ provider.lifetime = "Refresh"
    /\ token.some
    /\ op' = [name |-> "ensure_token", code |-> "", scope |-> None,
              token |-> token, at |-> now]
    /\ outcome' = NoOutcome
    /\ IF ensure_token(token.tok, now)
       THEN /\ Send(refresh_token(client, provider, token.tok, None))
            /\ token' = NoToken
       ELSE /\ requests' = <<>>
            /\ result' = COk(token.tok)
            /\ pc' = "idle"
            /\ token' = token
    /\ UNCHANGED <<client, provider, now, issued, parsed, url, tasks>>

\* the HTTP collaborator answers and the pending future completes
Complete ==
    \E out \in Outcomes :
        LET res == IF op.name = "request_token"
                   THEN request_token_and_then(provider, out, now)
                   ELSE refresh_token_and_then(provider, out, op.token.tok, now)
        IN  /\ pc = "awaiting"
            /\ outcome' = out
            /\ result' = res
            /\ pc' = "idle"
            /\ token' = IF res.ok THEN SomeToken(res.token) ELSE token
            /\ issued' = IF ~res.ok THEN (IF op.name = "request_token" THEN issued ELSE "")
                         ELSE IF ResponseRefreshToken(out).some
                              THEN ResponseRefreshToken(out).v
                              ELSE IF op.name = "request_token" THEN "" ELSE issued
            /\ UNCHANGED <<client, provider, now, op, requests, parsed, url, tasks>>

Next == Tick \/ RequestToken \/ RefreshToken \/ EnsureToken \/ Complete

Spec == Init /\ [][Next]_vars

----------------------------------------------------------------------------
(* The parsers applied on their own: every parser on every value of a       *)
(* universe of JSON values, with every previous token and parse time.       *)

Optional(k, vs) == {EmptyObj} \cup {Field(k, v) : v \in vs}

TokenTypeValues == {JStr("Bearer"), JStr("bearer"), JStr("BEARER"), JStr("MAC"), JInt(7)}
AccessTokenValues == {JStr("cccccccc"), JInt(7)}
ScopeValues == {JStr("other"), JNull}
ExpiresInValues == {JInt(-1), JInt(0), JInt(1), JInt(2), JStr("3600"), JNull}
RefreshTokenValues == {JStr("dddddddd"), JInt(7), JNull}

\* `error` strings: the six codes of RFC 6749 section 5.2, case variants of
\* them, and others
ErrorStrings ==
    RecognizedCodes
    \cup {"Invalid_Request", "INVALID_SCOPE", "temporarily_unavailable", ""}

ErrorValues ==
    {Field("error", JStr(s)) : s \in ErrorStrings}
    \cup
    { EmptyObj,
      Field("error", JStr("invalid_request")),
      Field("error", JStr("temporarily_unavailable")),
      Field("error", JInt(7)),
      InvalidRequest,
      Merge(Field("error", JStr("invalid_grant")),
            Merge(Field("error_description", JInt(7)), Field("error_uri", JNull))),
      Field("error_description", JStr("example")) }

JsonObjects ==
    { Merge(tt, Merge(at, Merge(sc, Merge(ei, Merge(rt, er))))) :
        tt \in Optional("token_type", TokenTypeValues),
        at \in Optional("access_token", AccessTokenValues),
        sc \in Optional("scope", ScopeValues),
        ei \in Optional("expires_in", ExpiresInValues),
        rt \in Optional("refresh_token", RefreshTokenValues),
        er \in ErrorValues }

JsonValues ==
    {JObject(f) : f \in JsonObjects}
    \cup {JNonObject(k) : k \in {"array", "string", "null"}}

\* the lifetime of a token parsed earlier for a provider of lifetime L
PrevLifetimes(L) ==
    CASE L = "Static" -> {Static}
      [] L = "Expiring" -> {Expiring("bbbbbbbb", 0), Expiring("ffffffff", MaxNow + 2)}
      [] L = "Refresh" -> {Refresh("bbbbbbbb", 0), Refresh("ffffffff", MaxNow + 2)}

PrevTokens(L) ==
    {Bearer("aaaaaaaa", Some("example"), l) : l \in PrevLifetimes(L)}

ParseInit ==
    /\ client \in Clients
    /\ provider \in Providers
    /\ now \in {0, MaxNow}
    /\ token \in {SomeToken(b) : b \in PrevTokens(provider.lifetime)}
    /\ outcome \in {JsonBody(j) : j \in JsonValues}
    /\ op = NoOp
    /\ requests = <<>>
    /\ result = NoResult
    /\ pc = "parse"
    /\ issued = ""
    /\ parsed = NoParsed
    /\ url = NoAuthUri
    /\ tasks = <<>>

Apply(name, value) ==
    /\ pc = "parse"
    /\ op.name = "none"
    /\ op' = [op EXCEPT !.name = name, !.at = now]
    /\ parsed' = value
    /\ UNCHANGED <<client, provider, now, token, requests, outcome, result, pc, issued, url, tasks>>

\* <P::Lifetime>::from_response(&json)
ParseLifetime ==
    Apply("Lifetime::from_response",
          Lifetime_from_response(provider.lifetime, outcome.json, now))

\* <P::Lifetime>::from_response_inherit(&json, &prev)
ParseLifetimeInherit ==
    Apply("Lifetime::from_response_inherit",
          Lifetime_from_response_inherit(provider.lifetime, outcome.json,
                                         token.tok.lifetime, now))

\* Bearer::<P::Lifetime>::from_response(&json)
ParseBearer ==
    Apply("Bearer::from_response",
          Bearer_from_response(provider.lifetime, outcome.json, now))

\* Bearer::<P::Lifetime>::from_response_inherit(&json, &prev)
ParseBearerInherit ==
    Apply("Bearer::from_response_inherit",
          Bearer_from_response_inherit(provider.lifetime, outcome.json, token.tok, now))

\* OAuth2Error::from_response(&json)
ParseOAuth2Error ==
    Apply("OAuth2Error::from_response", OAuth2Error_from_response(outcome.json))

\* the closure request_token chains onto post_token
ParseRequestToken ==
    /\ pc = "parse"
    /\ op.name = "none"
    /\ op' = [op EXCEPT !.name = "request_token", !.at = now]
    /\ result' = request_token_and_then(provider, outcome, now)
    /\ UNCHANGED <<client, provider, now, token, requests, outcome, pc, issued, parsed, url, tasks>>

\* json::encode and json::decode of the token Bearer::from_response returned
ParseEncodeDecode ==
    LET b == Bearer_from_response(provider.lifetime, outcome.json, now)
    IN  /\ pc = "parse"
        /\ op.name = "none"
        /\ op' = [op EXCEPT !.name = "encode_decode", !.at = now]
        /\ parsed' = b
        /\ result' = IF b.ok THEN COk(Bearer_decode(Bearer_encode(b.val))) ELSE NoResult
        /\ UNCHANGED <<client, provider, now, token, requests, outcome, pc, issued, url, tasks>>

ParseNext ==
    \/ ParseEncodeDecode
    \/ ParseLifetime
    \/ ParseLifetimeInherit
    \/ ParseBearer
    \/ ParseBearerInherit
    \/ ParseOAuth2Error
    \/ ParseRequestToken

SpecParse == ParseInit /\ [][ParseNext]_vars

----------------------------------------------------------------------------
(* The calls on their own: every operation of every client of a universe of *)
(* clients and providers, up to the request it builds.                      *)

\* src/client/mod.rs tests: struct Test
TestProvider ==
    [lifetime |-> "Static",
     auth_uri |-> "http://example.com/oauth2/auth",
     token_uri |-> "http://example.com/oauth2/token",
     credentials_in_body |-> credentials_in_body]

\* a provider that overrides Provider::credentials_in_body
BodyCredentialsProvider(L) == [MockProvider(L) EXCEPT !.credentials_in_body = TRUE]

\* a provider whose authorization endpoint Url::parse rejects
MalformedAuthProvider ==
    [MockProvider("Static") EXCEPT !.auth_uri = "example.com/oauth/auth"]

\* a provider whose token endpoint does not parse as a hyper::Uri
MalformedTokenProvider(L) ==
    [MockProvider(L) EXCEPT !.token_uri = "example.com/oauth/token"]

RequestProviders ==
    Providers \cup {TestProvider, MalformedAuthProvider}
    \cup {MalformedTokenProvider(L) : L \in {"Static", "Refresh"}}
    \cup {BodyCredentialsProvider(L) : L \in {"Static", "Refresh"}}

RequestClients ==
    Clients
    \cup {Client_new("foo", "bar", None),
          Client_new("foo", "bar", Some("http://example.com/oauth2/callback")),
          Client_new("foo", "baz", Some("http://example.com/oauth2/callback")),
          Client_new("CLIENT_ID", "CLIENT_SECRET", Some("urn:ietf:wg:oauth:2.0:oob"))}

AuthScopes == {None, Some("baz"), Some("user repo")}
States == {None, Some("baz"), Some("a=b&c")}

RequestInit ==
    /\ client \in RequestClients
    /\ provider \in RequestProviders
    /\ now \in {0, MaxNow}
    /\ token \in IF provider.lifetime = "Refresh"
                 THEN {SomeToken(b) : b \in PrevTokens("Refresh")}
                 ELSE {NoToken}
    /\ op = NoOp
    /\ requests = <<>>
    /\ outcome = NoOutcome
    /\ result = NoResult
    /\ pc = "idle"
    /\ issued = ""
    /\ parsed = NoParsed
    /\ url = NoAuthUri
    /\ tasks = <<>>

\* client.auth_uri(scope, state)
AuthUri ==
    \E scope \in AuthScopes, state \in States :
        /\ pc # "panicked"
        /\ url' = [called |-> TRUE, scope |-> scope, state |-> state,
                   ret |-> auth_uri(client, provider, scope, state)]
        /\ UNCHANGED <<client, provider, now, token, op, requests, outcome, result,
                       pc, issued, parsed, tasks>>

RequestNext == AuthUri \/ RequestToken \/ RefreshToken \/ EnsureToken

SpecRequest == RequestInit /\ [][RequestNext]_vars

----------------------------------------------------------------------------
(* Operations running concurrently on one client: every method takes &self, *)
(* and each future owns the token that was moved into it.                   *)

\* the tasks that share the client
Tasks == {"t1", "t2"}

IdleTask ==
    [pc |-> "idle", op |-> NoOp, requests |-> <<>>, outcome |-> NoOutcome,
     result |-> NoResult, url |-> NoAuthUri, done_at |-> 0]

\* the answers of the HTTP collaborator to concurrent requests
ConcurrentOutcomes ==
    {HyperError,
     NotJson,
     JsonBody(JObject(InvalidRequest)),
     JsonBody(JObject(BearerA)),
     JsonBody(JObject(Merge(BearerA, Field("expires_in", JInt(1))))),
     JsonBody(JObject(Merge(BearerC, Merge(Field("expires_in", JInt(1)),
                                           Field("refresh_token", JStr("dddddddd"))))))}

ConcurrentInit ==
    /\ client \in Clients
    /\ provider \in Providers
    /\ now = 0
    /\ token = NoToken
    /\ op = NoOp
    /\ requests = <<>>
    /\ outcome = NoOutcome
    /\ result = NoResult
    /\ pc = "idle"
    /\ issued = ""
    /\ parsed = NoParsed
    /\ url = NoAuthUri
    /\ tasks = [i \in Tasks |-> IdleTask]

\* the closure of refresh_token taking the token of another pending refresh
captured_token_shared(ts, i) ==
    LET others == {j \in DOMAIN ts : j # i /\ ts[j].op.token.some}
    IN  IF others = {} THEN ts[i].op.token.tok
        ELSE ts[CHOOSE j \in others : TRUE].op.token.tok

\* Client::refresh_token: the token moved into the future's closure
captured_token(ts, i) == ts[i].op.token.tok

\* a task's future is pending on the request post_token built
Pending(i, o, req) ==
    tasks' = [tasks EXCEPT ![i] =
                [pc |-> IF req = Panic THEN "panicked" ELSE "awaiting",
                 op |-> o, requests |-> http_client_request(req),
                 outcome |-> NoOutcome, result |-> NoResult,
                 url |-> NoAuthUri, done_at |-> 0]]

\* time passes; every pending exchange takes at most MaxDelay ticks
ConcurrentTick ==
    /\ now < MaxNow
    /\ \A i \in Tasks : tasks[i].pc = "awaiting" => now < tasks[i].op.at + MaxDelay
    /\ now' = now + 1
    /\ UNCHANGED <<client, provider, token, op, requests, outcome, result, pc,
                   issued, parsed, url, tasks>>

\* a task calls client.auth_uri(scope, state)
TaskAuthUri(i) ==
    \E scope \in AuthScopes, state \in States :
        /\ tasks[i].pc = "idle"
        /\ tasks' = [tasks EXCEPT ![i] =
                [pc |-> "done",
                 op |-> [name |-> "auth_uri", code |-> "", scope |-> None,
                         token |-> NoToken, at |-> now],
                 requests |-> <<>>, outcome |-> NoOutcome, result |-> NoResult,
                 url |-> [called |-> TRUE, scope |-> scope, state |-> state,
                          ret |-> auth_uri(client, provider, scope, state)],
                 done_at |-> now]]
        /\ UNCHANGED <<client, provider, now, token, op, requests, outcome, result,
                       pc, issued, parsed, url>>

\* a task calls client.request_token(&http_client, code)
TaskRequestToken(i) ==
    \E code \in Codes :
        /\ tasks[i].pc = "idle"
        /\ Pending(i, [name |-> "request_token", code |-> code, scope |-> None,
                       token |-> NoToken, at |-> now],
                   request_token(client, provider, code))
        /\ UNCHANGED <<client, provider, now, token, op, requests, outcome, result,
                       pc, issued, parsed, url>>

\* a task calls client.refresh_token(&http_client, token, scope) with a token it owns
TaskRefreshToken(i) ==
    \E tok \in PrevTokens(provider.lifetime), scope \in Scopes :
        /\ tasks[i].pc = "idle"
        /\ provider.lifetime = "Refresh"
        /\ Pending(i, [name |-> "refresh_token", code |-> "", scope |-> scope,
                       token |-> SomeToken(tok), at |-> now],
                   refresh_token(client, provider, tok, scope))
        /\ UNCHANGED <<client, provider, now, token, op, requests, outcome, result,
                       pc, issued, parsed, url>>

\* a task calls client.ensure_token(&http_client, token) with a token it owns
TaskEnsureToken(i) ==
    \E tok \in PrevTokens(provider.lifetime) :
        LET o == [name |-> "ensure_token", code |-> "", scope |-> None,
                  token |-> SomeToken(tok), at |-> now]
        IN  /\ tasks[i].pc = "idle"
            /\ provider.lifetime = "Refresh"
            /\ IF ensure_token(tok, now)
               THEN Pending(i, o, refresh_token(client, provider, tok, None))
               ELSE tasks' = [tasks EXCEPT ![i] =
                        [pc |-> "done", op |-> o, requests |-> <<>>,
                         outcome |-> NoOutcome, result |-> COk(tok),
                         url |-> NoAuthUri, done_at |-> now]]
            /\ UNCHANGED <<client, provider, now, token, op, requests, outcome,
                           result, pc, issued, parsed, url>>

\* the HTTP collaborator answers a task's request and its future completes
TaskComplete(i) ==
    \E out \in ConcurrentOutcomes :
        /\ tasks[i].pc = "awaiting"
        /\ tasks' = [tasks EXCEPT
                ![i].pc = "done",
                ![i].outcome = out,
                ![i].done_at = now,
                ![i].result =
                    IF tasks[i].op.name = "request_token"
                    THEN request_token_and_then(provider, out, now)
                    ELSE refresh_token_and_then(provider, out,
                                                captured_token(tasks, i), now)]
        /\ UNCHANGED <<client, provider, now, token, op, requests, outcome, result,
                       pc, issued, parsed, url>>

ConcurrentNext ==
    \/ ConcurrentTick
    \/ \E i \in Tasks : TaskAuthUri(i)
    \/ \E i \in Tasks : TaskRequestToken(i)
    \/ \E i \in Tasks : TaskRefreshToken(i)
    \/ \E i \in Tasks : TaskEnsureToken(i)
    \/ \E i \in Tasks : TaskComplete(i)

SpecConcurrent == ConcurrentInit /\ [][ConcurrentNext]_vars

----------------------------------------------------------------------------
(* Properties.                                                              *)

\* the operation `name` has returned
Returned(name) == pc = "idle" /\ op.name = name

\* the response body is a JSON object
IsObject == outcome.kind = "json" /\ outcome.json.kind = "object"
Body == outcome.json.obj

HasString(k) == k \in DOMAIN Body /\ Body[k].t = "string"
HasInt(k) == k \in DOMAIN Body /\ Body[k].t = "i64"
HasKey(k) == k \in DOMAIN Body

\* an OAuth2 error object: a JSON object with a string `error` field
IsErrorBody == IsObject /\ HasString("error")

\* the error an error object states: its code, description and uri
StatedError ==
    [code |-> OAuth2ErrorCode_from(Body["error"].s),
     description |-> IF HasString("error_description")
                     THEN Some(Body["error_description"].s) ELSE None,
     uri |-> IF HasString("error_uri") THEN Some(Body["error_uri"].s) ELSE None]

\* the body has the bearer fields Bearer parsing accepts
WellFormedBearer ==
    /\ IsObject
    /\ HasString("token_type")
    /\ Body["token_type"].s \in {"Bearer", "bearer"}
    /\ HasString("access_token")

\* C1: for every JSON object with a string `error` field that the token endpoint
\* returns, request_token fails with ClientError::OAuth2 carrying the parsed error
\* (code, description, uri): never a ParseError, never a token, even when the body
\* also has the fields of a valid token.
C1_RequestTokenErrorBody ==
    (Returned("request_token") /\ IsErrorBody)
        => result = CErr(ClientError_OAuth2(StatedError))

\* C2: after a successful request_token on a refresh-capable provider, a
\* refresh_token call answered with an OAuth2 error object fails with
\* ClientError::OAuth2 carrying that error's code, description and uri, and no
\* ParseError about a missing expires_in or refresh_token is reported.
C2_RefreshTokenErrorBody ==
    (Returned("refresh_token") /\ IsErrorBody)
        => result = CErr(ClientError_OAuth2(StatedError))

\* the token handed to the operation
Prev == op.token.tok

\* C3: for every previous Refresh lifetime and every refresh response with an
\* integer expires_in, the inherited parse takes refresh_token from the response
\* when the response has one and from the previous lifetime when the response has
\* no refresh_token field; the access_token comes from the response in both cases.
C3_InheritRefreshToken ==
    (pc = "parse" /\ provider.lifetime = "Refresh" /\ IsObject /\ HasInt("expires_in"))
    =>  /\ (op.name = "Lifetime::from_response_inherit" /\ HasString("refresh_token"))
               => parsed.ok /\ parsed.val.refresh_token = Body["refresh_token"].s
        /\ (op.name = "Lifetime::from_response_inherit" /\ ~HasKey("refresh_token"))
               => parsed.ok
                  /\ parsed.val.refresh_token = token.tok.lifetime.refresh_token
        /\ (op.name = "Bearer::from_response_inherit" /\ WellFormedBearer
                /\ (HasString("refresh_token") \/ ~HasKey("refresh_token")))
               => /\ parsed.ok
                  /\ parsed.val.access_token = Body["access_token"].s
                  /\ parsed.val.lifetime.refresh_token =
                         IF HasKey("refresh_token")
                         THEN Body["refresh_token"].s
                         ELSE token.tok.lifetime.refresh_token

\* C3 witness: a response without refresh_token parsed against a previous token:
\* the new token has the response's access_token and the previous refresh_token
C3_Witness ==
    /\ pc = "parse"
    /\ op.name = "Bearer::from_response_inherit"
    /\ provider.lifetime = "Refresh"
    /\ IsObject /\ ~HasKey("refresh_token")
    /\ parsed.ok
    /\ parsed.val.access_token = "cccccccc"
    /\ token.tok.access_token = "aaaaaaaa"
    /\ parsed.val.lifetime.refresh_token = "ffffffff"

\* C4: after request_token has succeeded for a refresh-capable provider, and
\* after every sequence of successful refresh_token / ensure_token calls on the
\* token the previous call returned, the token held has a refresh token, and it
\* is the refresh_token of the latest response that contained one.
C4_RefreshTokenNeverDropped ==
    (provider.lifetime = "Refresh" /\ token.some)
        => /\ token.tok.lifetime.refresh_token # ""
           /\ token.tok.lifetime.refresh_token = issued

\* C4 witness: a refresh answered without refresh_token left the token with the
\* refresh token issued earlier
C4_Witness ==
    /\ provider.lifetime = "Refresh"
    /\ Returned("refresh_token")
    /\ result.ok /\ token.some
    /\ IsObject /\ ~HasKey("refresh_token")
    /\ token.tok.access_token # Prev.access_token
    /\ token.tok.lifetime.refresh_token = "dddddddd"
    /\ Prev.lifetime.refresh_token = "dddddddd"

\* the body of the request a refresh of tok sends when no scope is given
RefreshBodyNoScope(tok) ==
    <<Pair("grant_type", "refresh_token"),
      Pair("refresh_token", tok.lifetime.refresh_token)>>

\* C5: ensure_token issues no request and returns the token it was given,
\* unchanged, when token.lifetime.expired() is false; when it is true it issues
\* exactly one request, a refresh request without scope, and returns the result of
\* that refresh.
C5_EnsureToken ==
    op.name = "ensure_token"
    =>  IF ~Lifetime_expired(Prev.lifetime, op.at)
        THEN /\ requests = <<>>
             /\ pc = "idle"
             /\ result = COk(Prev)
             /\ token = op.token
        ELSE /\ Len(requests) = 1
             /\ requests[1].method = "POST"
             /\ requests[1].body = RefreshBodyNoScope(Prev)
             /\ pc = "idle" =>
                    \E t \in op.at .. now :
                        result = refresh_token_and_then(provider, outcome, Prev, t)

\* C5 witness: ensure_token on an expired token has sent its one request and
\* returned the refreshed token
C5_Witness ==
    /\ Returned("ensure_token")
    /\ Lifetime_expired(Prev.lifetime, op.at)
    /\ Len(requests) = 1
    /\ result.ok
    /\ result.token.access_token # Prev.access_token

\* C6 as stated: for a provider whose lifetime is Static, request_token on a
\* well-formed bearer response that contains a refresh_token field fails with
\* ClientError::Parse and yields no token, whether or not the response also
\* contains expires_in.
C6_StaticRejectsRefreshToken ==
    (Returned("request_token") /\ provider.lifetime = "Static"
        /\ WellFormedBearer /\ HasKey("refresh_token"))
    => ~result.ok /\ result.err.variant = "Parse"

\* C6 amended: for a provider whose lifetime is Static, request_token on a
\* well-formed bearer response that contains a refresh_token field fails with
\* ClientError::Parse(UnexpectedField("expires_in")) and yields no token when the
\* response also contains expires_in; when it does not, the refresh_token field
\* is ignored and the Static token of the response is returned.
C6_StaticRejectsExpiresIn ==
    (Returned("request_token") /\ provider.lifetime = "Static"
        /\ WellFormedBearer /\ HasKey("refresh_token"))
    =>  IF HasKey("expires_in")
        THEN result = CErr(ClientError_Parse(UnexpectedField("expires_in")))
        ELSE /\ result.ok
             /\ result.token.access_token = Body["access_token"].s
             /\ result.token.lifetime = Static
             /\ token = SomeToken(result.token)

\* C6 witness: a Static provider was answered with a refresh-shaped response
\* (refresh_token and expires_in) and request_token failed with a parse error
C6_Witness ==
    /\ Returned("request_token")
    /\ provider.lifetime = "Static"
    /\ WellFormedBearer
    /\ HasString("refresh_token") /\ HasInt("expires_in")
    /\ ~HasKey("error")
    /\ result.err.variant = "Parse"

\* C7: parsing the Expiring (no-refresh) lifetime fails with
\* UnexpectedField("refresh_token") for every response object that contains a
\* refresh_token field and succeeds for every object that has an integer
\* expires_in and no refresh_token; so an Expiring provider given a
\* refresh-shaped response gets ClientError::Parse from request_token.
C7_ExpiringRejectsRefreshToken ==
    (pc = "parse" /\ provider.lifetime = "Expiring" /\ IsObject)
    =>  /\ (op.name = "Lifetime::from_response" /\ HasKey("refresh_token"))
               => parsed = LErr(UnexpectedField("refresh_token"))
        /\ (op.name = "Lifetime::from_response" /\ ~HasKey("refresh_token")
                /\ HasInt("expires_in"))
               => parsed.ok
        /\ (op.name = "request_token" /\ WellFormedBearer
                /\ HasString("refresh_token") /\ HasInt("expires_in"))
               => ~result.ok /\ result.err.variant = "Parse"

\* times at which an expiry is observed
Times == 0 .. (MaxNow + 2)

\* C8: Static parsing succeeds for every JSON object without an expires_in key
\* ({} included), fails with UnexpectedField("expires_in") for every object with
\* an expires_in key whatever the type of its value, and fails with
\* ExpectedType("object") for every JSON value that is not an object; a parsed
\* Static lifetime reports expired() = false at every time.
C8_StaticParse ==
    (pc = "parse" /\ provider.lifetime = "Static" /\ op.name = "Lifetime::from_response")
    =>  /\ ~IsObject => parsed = LErr(ExpectedType("object"))
        /\ (IsObject /\ HasKey("expires_in"))
               => parsed = LErr(UnexpectedField("expires_in"))
        /\ (IsObject /\ ~HasKey("expires_in"))
               => /\ parsed = LOk(Static)
                  /\ \A t \in Times : ~Lifetime_expired(parsed.val, t)

\* C8 witness: an object whose expires_in is not an integer was rejected by the
\* Static parser
C8_Witness ==
    /\ pc = "parse"
    /\ provider.lifetime = "Static"
    /\ op.name = "Lifetime::from_response"
    /\ IsObject /\ HasKey("expires_in") /\ ~HasInt("expires_in")
    /\ parsed.err = UnexpectedField("expires_in")

\* C9: the non-inherited Refresh parse succeeds only if the response object has a
\* string refresh_token and an integer expires_in: it fails with
\* ExpectedFieldType("refresh_token","string") when refresh_token is missing or
\* not a string, otherwise with ExpectedFieldType("expires_in","i64") when
\* expires_in is missing or not an integer; so a Refresh provider given a
\* static-shaped response gets ClientError::Parse from request_token.
C9_RefreshParse ==
    (pc = "parse" /\ provider.lifetime = "Refresh" /\ IsObject)
    =>  /\ op.name = "Lifetime::from_response"
               => /\ parsed.ok <=> (HasString("refresh_token") /\ HasInt("expires_in"))
                  /\ ~HasString("refresh_token")
                         => parsed = LErr(ExpectedFieldType("refresh_token", "string"))
                  /\ (HasString("refresh_token") /\ ~HasInt("expires_in"))
                         => parsed = LErr(ExpectedFieldType("expires_in", "i64"))
        /\ (op.name = "request_token" /\ WellFormedBearer
                /\ ~HasKey("refresh_token") /\ ~HasKey("expires_in"))
               => ~result.ok /\ result.err.variant = "Parse"

\* C9 witness: a response with neither refresh_token nor an integer expires_in
\* was rejected for its refresh_token
C9_Witness ==
    /\ pc = "parse"
    /\ provider.lifetime = "Refresh"
    /\ op.name = "Lifetime::from_response"
    /\ IsObject /\ ~HasKey("refresh_token") /\ ~HasInt("expires_in")
    /\ parsed.err = ExpectedFieldType("refresh_token", "string")

\* C10: the inherited Refresh parse never carries the previous expiry forward:
\* for every previous lifetime a refresh response without an integer expires_in
\* fails with ExpectedFieldType("expires_in","i64"), and on success the new
\* expiry is the time of parsing plus the response's expires_in, whatever the
\* previous expiry.
C10_InheritExpiry ==
    (pc = "parse" /\ provider.lifetime = "Refresh" /\ IsObject
        /\ op.name = "Lifetime::from_response_inherit")
    =>  /\ ~HasInt("expires_in")
               => parsed = LErr(ExpectedFieldType("expires_in", "i64"))
        /\ parsed.ok <=> HasInt("expires_in")
        /\ parsed.ok
               => parsed.val.expires = op.at + Body["expires_in"].n * TicksPerSec

\* C10 witness: a response without refresh_token was parsed against a previous
\* lifetime with another expiry, and the new expiry is the response's
C10_Witness ==
    /\ pc = "parse"
    /\ provider.lifetime = "Refresh"
    /\ op.name = "Lifetime::from_response_inherit"
    /\ IsObject /\ ~HasKey("refresh_token") /\ HasInt("expires_in")
    /\ parsed.ok
    /\ parsed.val.refresh_token = token.tok.lifetime.refresh_token
    /\ parsed.val.expires # token.tok.lifetime.expires

\* the response has the fields the provider's lifetime parser requires
LifetimeShape ==
    /\ IsObject
    /\ IF provider.lifetime = "Static"
       THEN ~HasKey("expires_in")
       ELSE HasString("refresh_token") /\ HasInt("expires_in")

\* ASCII lower case of the token_type strings of the universe
AsciiLowercase(s) ==
    CASE s \in {"Bearer", "bearer", "BEARER"} -> "bearer"
      [] s = "MAC" -> "mac"
      [] OTHER -> s

\* C11: Bearer parsing accepts a response's token_type if and only if it is a
\* string that case-insensitively equals "bearer" (every case variant: "Bearer",
\* "bearer", "BEARER"); every other string value (e.g. "MAC") fails with
\* ExpectedFieldValue("token_type","Bearer").
C11_TokenTypeCaseInsensitive ==
    (pc = "parse" /\ op.name = "Bearer::from_response" /\ LifetimeShape
        /\ HasString("token_type"))
    =>  IF AsciiLowercase(Body["token_type"].s) = "bearer"
        THEN /\ parsed.err # ExpectedFieldValue("token_type", "Bearer")
             /\ HasString("access_token") => parsed.ok
        ELSE parsed = BErr(ExpectedFieldValue("token_type", "Bearer"))

\* the form-urlencoded text of the parameter values of the universe, written
\* out by hand
Encoded(s) ==
    CASE s = "http://example.com/oauth2/callback" ->
             "http%3A%2F%2Fexample.com%2Foauth2%2Fcallback"
      [] s = "urn:ietf:wg:oauth:2.0:oob" -> "urn%3Aietf%3Awg%3Aoauth%3A2.0%3Aoob"
      [] s = "user repo" -> "user+repo"
      [] s = "a=b&c" -> "a%3Db%26c"
      [] s = "4/abc" -> "4%2Fabc"
      [] OTHER -> s

\* `&name=value` when the optional value is given, nothing otherwise
OptionalParam(name, o) == IF o.some THEN "&" \o name \o "=" \o Encoded(o.v) ELSE ""

\* C12: auth_uri(scope, state) returns the provider's authorization endpoint
\* followed by query parameters in exactly this order: response_type=code,
\* client_id, then redirect_uri if and only if the client has one, then scope if
\* and only if given, then state if and only if given; no other parameter is
\* added and every value is percent-encoded.
C12_AuthUri ==
    (url.called /\ provider.auth_uri \notin MalformedUris)
    =>  /\ url.ret.ok
        /\ Url_as_str(url.ret.url) =
               provider.auth_uri \o "?response_type=code&client_id="
               \o Encoded(client.client_id)
               \o OptionalParam("redirect_uri", client.redirect_uri)
               \o OptionalParam("scope", url.scope)
               \o OptionalParam("state", url.state)

\* C12 witness: auth_uri with a redirect URI, a scope and a state, all three
\* with bytes that need encoding
C12_Witness ==
    /\ url.called
    /\ url.ret.ok
    /\ Url_as_str(url.ret.url) =
           "http://example.com/oauth2/auth?response_type=code&client_id=foo"
           \o "&redirect_uri=http%3A%2F%2Fexample.com%2Foauth2%2Fcallback"
           \o "&scope=user+repo&state=a%3Db%26c"

\* the values of the parameters called `name` in a sequence of pairs, in order
ParamValues(pairs, name) ==
    LET idx == {i \in 1 .. Len(pairs) : pairs[i][1] = name}
        RECURSIVE Pick(_)
        Pick(S) == IF S = {} THEN <<>>
                   ELSE LET m == CHOOSE i \in S : \A j \in S : i <= j
                        IN  <<pairs[m][2]>> \o Pick(S \ {m})
    IN  Pick(idx)

\* C13: the body of the single POST issued by request_token(code) starts with
\* grant_type=authorization_code, then code=<code>, then redirect_uri=<uri> if and
\* only if the client has a redirect URI; it never contains a refresh_token or
\* scope parameter.
C13_RequestTokenBody ==
    (op.name = "request_token" /\ pc # "panicked")
    =>  LET body == requests[1].body
            n == IF client.redirect_uri.some THEN 3 ELSE 2
        IN  /\ Len(requests) = 1
            /\ requests[1].method = "POST"
            /\ Len(body) >= n
            /\ Serializer_finish(SubSeq(body, 1, n)) =
                   "grant_type=authorization_code&code=" \o Encoded(op.code)
                   \o OptionalParam("redirect_uri", client.redirect_uri)
            /\ Len(ParamValues(body, "redirect_uri")) =
                   IF client.redirect_uri.some THEN 1 ELSE 0
            /\ ParamValues(body, "refresh_token") = <<>>
            /\ ParamValues(body, "scope") = <<>>

\* C13 witness: request_token of a client with a redirect URI, for a provider
\* that takes the credentials in the body
C13_Witness ==
    /\ op.name = "request_token"
    /\ Len(requests) = 1
    /\ Serializer_finish(requests[1].body) =
           "grant_type=authorization_code&code=4%2Fabc"
           \o "&redirect_uri=http%3A%2F%2Fexample.com%2Foauth2%2Fcallback"
           \o "&client_id=foo&client_secret=bar"

\* the providers of the universe that do not override credentials_in_body
DefaultCredentialsProviders ==
    Providers \cup {TestProvider, MalformedAuthProvider}
    \cup {MalformedTokenProvider(L) : L \in {"Static", "Refresh"}}

\* C14: every token-endpoint request issued by request_token or refresh_token
\* carries an HTTP Basic Authorization header built from client_id and
\* client_secret, whatever the provider's credentials_in_body flag; client_id and
\* client_secret appear in the POST body if and only if credentials_in_body is
\* true, and the flag is false for a provider that does not override it.
C14_Credentials ==
    /\ \A i \in 1 .. Len(requests) :
          /\ requests[i].authorization =
                 [username |-> client.client_id, password |-> Some(client.client_secret)]
          /\ ParamValues(requests[i].body, "client_id") =
                 IF provider.credentials_in_body
                 THEN <<Encoded(client.client_id)>> ELSE <<>>
          /\ ParamValues(requests[i].body, "client_secret") =
                 IF provider.credentials_in_body
                 THEN <<Encoded(client.client_secret)>> ELSE <<>>
    /\ provider \in DefaultCredentialsProviders => ~provider.credentials_in_body

\* C14 witness: a refresh request for a provider that takes the credentials in
\* the body carries them in the body and in the Basic header
C14_Witness ==
    /\ op.name = "refresh_token"
    /\ provider.credentials_in_body
    /\ Len(requests) = 1
    /\ requests[1].authorization.username = "foo"
    /\ requests[1].authorization.password = Some("bar")
    /\ ParamValues(requests[1].body, "client_secret") = <<"bar">>

\* C15: for every client, the redirect_uri value sent in the authorization URI
\* and the redirect_uri value sent in the request_token body are the same value,
\* and the parameter is present in one if and only if it is present in the
\* other; no operation changes the client's redirect_uri, client_id or
\* client_secret.
C15_RedirectUriEchoed ==
    /\ []((url.called /\ url.ret.ok /\ op.name = "request_token" /\ pc # "panicked")
            => ParamValues(url.ret.url.query, "redirect_uri") =
                   ParamValues(requests[1].body, "redirect_uri"))
    /\ [][client' = client]_vars

\* C15 witness: a client with a redirect URI has built an authorization URI and
\* requested a token, and the parameter is in both
C15_Witness ==
    /\ url.called /\ url.ret.ok
    /\ op.name = "request_token"
    /\ client.redirect_uri = Some("urn:ietf:wg:oauth:2.0:oob")
    /\ ParamValues(url.ret.url.query, "redirect_uri") =
           <<"urn%3Aietf%3Awg%3Aoauth%3A2.0%3Aoob">>
    /\ ParamValues(requests[1].body, "redirect_uri") =
           <<"urn%3Aietf%3Awg%3Aoauth%3A2.0%3Aoob">>

\* C16: the body of the POST issued by refresh_token(token, scope) is
\* grant_type=refresh_token, then refresh_token=<the refresh token held by the
\* token passed in>, then scope=<scope> if and only if a scope is given; hence in
\* any chain of refreshes the refresh token sent at step k is the one held by the
\* token returned at step k-1 (inherited or newly issued).
C16_RefreshTokenBody ==
    /\ op.name = "refresh_token"
           => /\ Len(requests) = 1
              /\ requests[1].method = "POST"
              /\ Serializer_finish(requests[1].body) =
                     "grant_type=refresh_token&refresh_token="
                     \o Encoded(Prev.lifetime.refresh_token)
                     \o OptionalParam("scope", op.scope)
    /\ (pc = "awaiting" /\ op.name \in {"refresh_token", "ensure_token"})
           => ParamValues(requests[1].body, "refresh_token") = <<Encoded(issued)>>

\* C16 witness: a refresh with a scope is pending, and it sends the refresh
\* token that the response of the previous call issued
C16_Witness ==
    /\ pc = "awaiting"
    /\ op.name = "refresh_token"
    /\ Prev.access_token = "cccccccc"
    /\ Prev.scope = None
    /\ Serializer_finish(requests[1].body) =
           "grant_type=refresh_token&refresh_token=dddddddd&scope=user+repo"

\* the variant the claim names for each of the six codes
NamedVariant ==
    [s \in RecognizedCodes |->
        CASE s = "invalid_request" -> "InvalidRequest"
          [] s = "invalid_client" -> "InvalidClient"
          [] s = "invalid_grant" -> "InvalidGrant"
          [] s = "unauthorized_client" -> "UnauthorizedClient"
          [] s = "unsupported_grant_type" -> "UnsupportedGrantType"
          [] s = "invalid_scope" -> "InvalidScope"]

\* C17: the mapping from an `error` string to OAuth2ErrorCode sends exactly the
\* six strings invalid_request, invalid_client, invalid_grant,
\* unauthorized_client, unsupported_grant_type, invalid_scope to their named
\* variants and every other string s (case variants of those six included) to
\* Unrecognized(s) with s unchanged; the mapping is injective, so the original
\* string can always be recovered.
C17_ErrorCodeMapping ==
    (pc = "parse" /\ op.name = "OAuth2Error::from_response" /\ IsErrorBody)
    =>  LET s == Body["error"].s
        IN  /\ parsed.ok
            /\ parsed.val.code =
                   IF s \in RecognizedCodes
                   THEN [variant |-> NamedVariant[s], s |-> ""]
                   ELSE [variant |-> "Unrecognized", s |-> s]
            /\ \A other \in ErrorStrings :
                   OAuth2ErrorCode_from(other) = parsed.val.code => other = s

\* C17 witness: a case variant of a recognized code was kept as it was written
C17_Witness ==
    /\ pc = "parse"
    /\ op.name = "OAuth2Error::from_response"
    /\ IsErrorBody
    /\ Body["error"].s = "INVALID_SCOPE"
    /\ parsed.val.code = [variant |-> "Unrecognized", s |-> "INVALID_SCOPE"]

\* C18: OAuth2Error parsing succeeds if and only if the JSON value is an object
\* whose `error` field is a string: a non-object fails with
\* ExpectedType("object"), an object with a missing or non-string `error` ({}
\* included) fails with ExpectedFieldType("error","string"); on success
\* description and uri are present exactly when `error_description` and
\* `error_uri` are strings, with their values unchanged.
C18_OAuth2ErrorParse ==
    (pc = "parse" /\ op.name = "OAuth2Error::from_response")
    =>  /\ parsed.ok <=> IsErrorBody
        /\ ~IsObject => parsed.err = ExpectedType("object")
        /\ (IsObject /\ ~HasString("error"))
               => parsed.err = ExpectedFieldType("error", "string")
        /\ IsErrorBody
               => /\ parsed.val.description =
                         IF HasString("error_description")
                         THEN Some(Body["error_description"].s) ELSE None
                  /\ parsed.val.uri =
                         IF HasString("error_uri")
                         THEN Some(Body["error_uri"].s) ELSE None

\* C18 witness: an error object whose error_description and error_uri are not
\* strings was parsed, without description and uri
C18_Witness ==
    /\ pc = "parse"
    /\ op.name = "OAuth2Error::from_response"
    /\ IsErrorBody
    /\ HasKey("error_description") /\ ~HasString("error_description")
    /\ HasKey("error_uri") /\ ~HasString("error_uri")
    /\ parsed.ok
    /\ parsed.val.description = None /\ parsed.val.uri = None

\* C19: for Expiring and Refresh lifetimes, expired() is true exactly when the
\* current time is greater than or equal to expires_at; in particular it is true
\* at the instant now = expires_at, so ensure_token refreshes at that instant.
C19_ExpiredAtExpiry ==
    /\ (token.some /\ token.tok.lifetime.kind \in {"Expiring", "Refresh"})
           => (Lifetime_expired(token.tok.lifetime, now)
                   <=> now >= token.tok.lifetime.expires)
    /\ (op.name = "ensure_token" /\ op.at >= Prev.lifetime.expires)
           => Len(requests) = 1

C21_EncodeDecodeRoundTrip ==
    (pc = "parse" /\ op.name = "encode_decode" /\ parsed.ok)
        => result = COk(parsed.val)

\* C22: no public operation has an aborting path: for a provider whose token
\* endpoint string is malformed, request_token and refresh_token return a URI
\* error value (and send no request) instead of panicking, and for a malformed
\* authorization endpoint auth_uri returns a URI error value.
C22_NoAbortingPath ==
    /\ pc # "panicked"
    /\ (op.name \in {"request_token", "refresh_token"}
            /\ provider.token_uri \in MalformedUris)
           => requests = <<>> /\ result = CErr(ClientError_Url)
    /\ (url.called /\ provider.auth_uri \in MalformedUris)
           => url.ret = UErr(ClientError_Url)

\* an operation that went to the token endpoint has returned
ReturnedFromEndpoint ==
    /\ pc = "idle"
    /\ op.name \in {"request_token", "refresh_token", "ensure_token"}
    /\ outcome # NoOutcome

\* C24: request_token and refresh_token return a token only when the transport
\* succeeded, the body was valid JSON, the body was not an OAuth2 error and the
\* token parse succeeded; a transport failure is returned as the transport error
\* unchanged and a non-JSON body is returned as a JSON error, and in neither case
\* is error-shape or token-shape parsing attempted.
C24_TokenOnlyOnSuccess ==
    ReturnedFromEndpoint
    =>  /\ result.ok => (outcome.kind = "json" /\ ~IsErrorBody /\ WellFormedBearer)
        /\ outcome = HyperError => result = CErr(ClientError_Hyper)
        /\ outcome = NotJson => result = CErr(ClientError_Json)

\* the response has the fields the provider's inherited lifetime parse requires
InheritedLifetimeShape ==
    /\ IsObject
    /\ IF provider.lifetime = "Static" THEN ~HasKey("expires_in") ELSE HasInt("expires_in")

\* the error of the lifetime parse for an object that has not the lifetime's shape
LifetimeError(inherit) ==
    IF provider.lifetime = "Static" THEN UnexpectedField("expires_in")
    ELSE IF ~inherit /\ ~HasString("refresh_token")
         THEN ExpectedFieldType("refresh_token", "string")
    ELSE ExpectedFieldType("expires_in", "i64")

\* the scope a response states
StatedScope == IF HasString("scope") THEN Some(Body["scope"].s) ELSE None

\* C26: Bearer parsing parses the lifetime first (the inherited form when a
\* previous token is supplied) and only then validates token_type, access_token
\* and scope against the same root object: when a response violates both the
\* lifetime shape and the bearer fields, the error returned is the lifetime's,
\* and access_token is required to be a string (else
\* ExpectedFieldType("access_token","string")) while scope is optional.
C26_LifetimeFirst ==
    (pc = "parse" /\ IsObject
        /\ op.name \in {"Bearer::from_response", "Bearer::from_response_inherit"})
    =>  LET inherit == op.name = "Bearer::from_response_inherit"
            shape == IF inherit THEN InheritedLifetimeShape ELSE LifetimeShape
            typeOk == HasString("token_type")
                      /\ Body["token_type"].s \in {"Bearer", "bearer"}
        IN  /\ ~shape => parsed = BErr(LifetimeError(inherit))
            /\ (shape /\ typeOk /\ ~HasString("access_token"))
                   => parsed = BErr(ExpectedFieldType("access_token", "string"))
            /\ (shape /\ typeOk /\ HasString("access_token"))
                   => /\ parsed.ok
                      /\ parsed.val.access_token = Body["access_token"].s
                      /\ parsed.val.scope = StatedScope

\* C26 witness: a response that has neither the lifetime's shape nor a bearer
\* token_type was rejected with the lifetime's error
C26_Witness ==
    /\ pc = "parse"
    /\ op.name = "Bearer::from_response"
    /\ provider.lifetime = "Static"
    /\ IsObject /\ HasKey("expires_in")
    /\ HasString("token_type") /\ Body["token_type"].s = "MAC"
    /\ ~HasString("access_token")
    /\ parsed.err = UnexpectedField("expires_in")

\* C27: scope is never inherited on refresh: the token returned by an inherited
\* Bearer parse has scope equal to the response's string `scope` field, and has
\* no scope when the response omits it, whatever scope the previous token had;
\* only the lifetime's refresh_token is ever taken from the previous token.
C27_ScopeNotInherited ==
    (pc = "parse" /\ op.name = "Bearer::from_response_inherit" /\ parsed.ok)
    =>  /\ parsed.val.scope = StatedScope
        /\ parsed.val.access_token = Body["access_token"].s
        /\ provider.lifetime # "Static"
               => /\ parsed.val.lifetime.expires =
                         op.at + Body["expires_in"].n * TicksPerSec
                  /\ parsed.val.lifetime.refresh_token =
                         IF HasString("refresh_token")
                         THEN Body["refresh_token"].s
                         ELSE token.tok.lifetime.refresh_token

\* C27 witness: a previous token with a scope was refreshed by a response
\* without scope and without refresh_token: the new token has no scope and has
\* the previous refresh token
C27_Witness ==
    /\ pc = "parse"
    /\ op.name = "Bearer::from_response_inherit"
    /\ provider.lifetime = "Refresh"
    /\ token.tok.scope = Some("example")
    /\ IsObject /\ ~HasKey("scope") /\ ~HasKey("refresh_token")
    /\ parsed.ok
    /\ parsed.val.scope = None
    /\ parsed.val.lifetime.refresh_token = token.tok.lifetime.refresh_token

\* C28: the inherited Refresh parse never fails because of the refresh_token
\* field: when the response's refresh_token is present but not a string
\* (number, null), the previous token's refresh_token is used exactly as when
\* the field is absent, and no ParseError is reported for it.
C28_InheritNonStringRefreshToken ==
    (pc = "parse" /\ op.name = "Lifetime::from_response_inherit"
        /\ provider.lifetime \in {"Expiring", "Refresh"} /\ IsObject)
    =>  /\ parsed.err.a # "refresh_token"
        /\ (~HasString("refresh_token") /\ HasInt("expires_in"))
               => /\ parsed.ok
                  /\ parsed.val.refresh_token = token.tok.lifetime.refresh_token
        /\ ~HasInt("expires_in")
               => parsed = LErr(ExpectedFieldType("expires_in", "i64"))

\* C28 witness: a response whose refresh_token is a number was parsed against
\* a previous token, and the previous refresh token was kept
C28_Witness ==
    /\ pc = "parse"
    /\ op.name = "Lifetime::from_response_inherit"
    /\ provider.lifetime = "Refresh"
    /\ IsObject /\ HasInt("refresh_token") /\ HasInt("expires_in")
    /\ parsed.ok
    /\ parsed.val.refresh_token = "ffffffff"
    /\ token.tok.lifetime.refresh_token = "ffffffff"

\* the token held is the one the last operation returned, parsed from a response
\* with an integer expires_in
HeldFromResponse ==
    /\ pc = "idle"
    /\ outcome.kind = "json"
    /\ result.ok
    /\ token = SomeToken(result.token)
    /\ IsObject /\ HasInt("expires_in")

\* C29: lifetime parsing accepts every integer expires_in, zero and negative
\* values included, without error; a token parsed from a negative expires_in is
\* already expired() when it is returned, so every ensure_token call on it issues
\* a refresh request, and a provider that keeps answering with non-positive
\* expires_in makes every ensure_token call in the chain issue a request.
C29_NonPositiveExpiresIn ==
    /\ []((ReturnedFromEndpoint /\ provider.lifetime = "Refresh" /\ WellFormedBearer
              /\ HasInt("expires_in")
              /\ (op.name = "request_token" => HasString("refresh_token")))
           => /\ result.ok
              /\ Body["expires_in"].n < 0
                     => Lifetime_expired(result.token.lifetime, now))
    /\ [][(EnsureToken /\ HeldFromResponse /\ Body["expires_in"].n <= 0)
             => Len(requests') = 1]_vars

\* the client secrets of the universe
Secrets == {c.client_secret : c \in RequestClients}

\* C30: the authorization URI does not depend on client_secret: for any two
\* clients that differ only in client_secret, auth_uri returns the same URI for
\* the same scope and state; client_secret is sent only to the token endpoint
\* (in the Basic header, and in the body only when credentials_in_body is true).
C30_SecretNotInAuthUri ==
    /\ url.called
           => /\ \A secret \in Secrets :
                     auth_uri([client EXCEPT !.client_secret = secret], provider,
                              url.scope, url.state) = url.ret
              /\ ParamValues(url.ret.url.query, "client_secret") = <<>>
    /\ \A i \in 1 .. Len(requests) :
           /\ requests[i].uri = provider.token_uri
           /\ requests[i].authorization.password = Some(client.client_secret)
           /\ ParamValues(requests[i].body, "client_secret") # <<>>
                  => provider.credentials_in_body

\* C30 witness: the authorization URI of the client with secret "baz" is the
\* one of the client with secret "bar", and the secret went to the token endpoint
C30_Witness ==
    /\ url.called /\ url.ret.ok
    /\ client = Client_new("foo", "baz", Some("http://example.com/oauth2/callback"))
    /\ url.ret = auth_uri(Client_new("foo", "bar", client.redirect_uri), provider,
                          url.scope, url.state)
    /\ url.state = Some("a=b&c")
    /\ Len(requests) = 1
    /\ requests[1].authorization.password = Some("baz")

\* the answer is a JSON object with a refresh_token field
HasRefreshTokenField(out) ==
    /\ out.kind = "json"
    /\ out.json.kind = "object"
    /\ "refresh_token" \in DOMAIN out.json.obj

\* the operations that post to the token endpoint
EndpointOps == {"request_token", "refresh_token", "ensure_token"}

Alone(i) ==
    LET t == tasks[i]
        called == t.pc # "idle"
        done == t.pc = "done"
    IN  /\ (called /\ t.op.name = "auth_uri")
            => /\ t.requests = <<>>
               /\ t.url.ret = auth_uri(client, provider, t.url.scope, t.url.state)
        /\ (called /\ t.op.name = "request_token")
            => /\ t.requests = <<request_token(client, provider, t.op.code)>>
               /\ done => t.result =
                            request_token_and_then(provider, t.outcome, t.done_at)
        /\ (called /\ t.op.name = "refresh_token")
            => /\ t.requests =
                    <<refresh_token(client, provider, t.op.token.tok, t.op.scope)>>
               /\ done => t.result =
                            refresh_token_and_then(provider, t.outcome,
                                                   t.op.token.tok, t.done_at)
        /\ (called /\ t.op.name = "ensure_token")
            => IF ensure_token(t.op.token.tok, t.op.at)
               THEN /\ t.requests =
                         <<refresh_token(client, provider, t.op.token.tok, None)>>
                    /\ done => t.result =
                                 refresh_token_and_then(provider, t.outcome,
                                                        t.op.token.tok, t.done_at)
               ELSE /\ t.requests = <<>>
                    /\ t.result = COk(t.op.token.tok)

====
